---- MODULE Spec2Model ----
(***************************************************************************)
(* Model of OptimizedAgent (src/reference/solution.py): the memoized zone  *)
(* and rate lookups, the parallel warehouse check of check_inventory, the  *)
(* shipping handlers and the timeout-guarded check_external_service.       *)
(*                                                                         *)
(* Time is counted in ticks of 100 ms.  Money is counted in cents.         *)
(***************************************************************************)
EXTENDS Integers, Sequences, FiniteSets, TLC

VARIABLES
    \* ---- check_inventory (one invocation) ----
    invPc,        \* position of the handler: idle, collecting, exiting, left
    now,          \* ticks elapsed on the monotonic clock
    sku,          \* local sku of check_inventory
    futures,      \* warehouse -> state of the future submitted for it
    yielded,      \* futures as_completed has already handed to the loop
    order,        \* the same futures, in the order they were handed over
    total,        \* local accumulator of check_inventory
    endTime,      \* as_completed's end_time
    pendingExc,   \* exception propagating out of the with block, or "none"
    invOutcome,   \* how control left check_inventory
    invResult,    \* text of the SwaigFunctionResult returned, or ""
    leftAt,       \* clock value when control left check_inventory
    \* ---- the shipping handlers and check_external_service ----
    cache,        \* the two lru_cache tables: entries oldest first
    th,           \* per calling thread: position, arguments, locals, result
    watch,        \* the table and key the three observations below follow
    runs,         \* executions of the wrapped function for the watched key
                  \* since the key was last evicted
    seen,         \* the values the calls with the watched key have returned
    evicted,      \* the watched key was evicted at some time
    since         \* the keys of the watched table that were hit or inserted
                  \* after the last hit or insertion of the watched key

invVars == <<invPc, now, sku, futures, yielded, order, total, endTime, pendingExc,
             invOutcome, invResult, leftAt>>

shipVars == <<cache, th, watch, runs, seen, evicted, since>>

vars == <<invPc, now, sku, futures, yielded, order, total, endTime, pendingExc,
          invOutcome, invResult, leftAt, cache, th, watch, runs, seen, evicted,
          since>>

----------------------------------------------------------------------------
(* Bounds of the model *)

\* the clock stops advancing here
MaxTime == 23
\* scheduling slack allowed after a deadline, in ticks
EpsTicks == 1

(* Program constants *)

\* as_completed(futures, timeout=2): 2 s
TimeoutTicks == 20
\* time.sleep(0.3) in _check_warehouse: 300 ms
SleepTicks == 3

\* args.get(key, default) finds no key
Absent == "<absent>"

----------------------------------------------------------------------------
(* _check_warehouse *)

\* the warehouses check_inventory submits
Warehouses == {"A", "B", "C"}

\* inventory.get(warehouse, 0)
inventory(w) ==
    CASE w = "A" -> 10
      [] w = "B" -> 5
      [] w = "C" -> 15
      [] OTHER   -> 0

RECURSIVE SumInventory(_)
SumInventory(S) ==
    IF S = {} THEN 0
    ELSE LET w == CHOOSE x \in S : TRUE
         IN  inventory(w) + SumInventory(S \ {w})

\* the worker is past time.sleep(0.3)
SleepOver(w) == now >= SleepTicks

\* the worker thread of w adds its count to the caller's accumulator itself
_check_warehouse_shared(w) ==
    /\ futures[w] = "running"
    /\ now >= SleepTicks
    /\ futures' = [futures EXCEPT ![w] = "done"]
    /\ total' = total + inventory(w)
    /\ UNCHANGED <<invPc, now, sku, yielded, order, endTime, pendingExc,
                   invOutcome, invResult, leftAt>>
    /\ UNCHANGED shipVars

\* the worker thread of w returns inventory.get(w, 0): the future is finished
\* with a result
_check_warehouse(w) ==
    /\ futures[w] = "running"
    /\ SleepOver(w)
    /\ futures' = [futures EXCEPT ![w] = "done"]
    /\ UNCHANGED <<invPc, now, sku, yielded, order, total, endTime, pendingExc,
                   invOutcome, invResult, leftAt>>
    /\ UNCHANGED shipVars

\* the worker thread of w raises: the future is finished with an exception
_check_warehouse_raises(w) ==
    /\ futures[w] = "running"
    /\ futures' = [futures EXCEPT ![w] = "failed"]
    /\ UNCHANGED <<invPc, now, sku, yielded, order, total, endTime, pendingExc,
                   invOutcome, invResult, leftAt>>
    /\ UNCHANGED shipVars

----------------------------------------------------------------------------
(* check_inventory *)

SkuArgs == {Absent, "SKU-1"}

\* args.get("sku", "unknown")
GetSku(arg) == IF arg = Absent THEN "unknown" ELSE arg

\* f"Inventory for {sku}: {total} total"
InventoryText(s, t) == "Inventory for " \o s \o ": " \o ToString(t) \o " total"

Finished(w) == futures[w] \in {"done", "failed"}

\* total = future.result() in place of +=
AccumulateOverwrite(t, w) ==
    IF futures[w] = "done" THEN inventory(w) ELSE t

\* the value of a failed probe is added all the same
AccumulateFailed(t, w) == t + inventory(w)

\* try: total += future.result()  except Exception: pass
Accumulate(t, w) ==
    IF futures[w] = "done" THEN t + inventory(w) ELSE t

\* entry of the handler up to the first wait of as_completed: the three
\* submits start three workers (max_workers=3), total = 0, and as_completed
\* fixes end_time = timeout + time.monotonic()
check_inventory(arg) ==
    /\ invPc = "idle"
    /\ sku' = GetSku(arg)
    /\ futures' = [w \in Warehouses |-> "running"]
    /\ yielded' = {}
    /\ order' = <<>>
    /\ total' = 0
    /\ endTime' = now + TimeoutTicks
    /\ invPc' = "collecting"
    /\ UNCHANGED <<now, pendingExc, invOutcome, invResult, leftAt>>
    /\ UNCHANGED shipVars

\* as_completed yields a finished future and the loop body runs on it
AsCompletedYield(w) ==
    /\ invPc = "collecting"
    /\ w \notin yielded
    /\ Finished(w)
    /\ yielded' = yielded \cup {w}
    /\ order' = Append(order, w)
    /\ total' = Accumulate(total, w)
    /\ UNCHANGED <<invPc, now, sku, futures, endTime, pendingExc,
                   invOutcome, invResult, leftAt>>
    /\ UNCHANGED shipVars

\* as_completed has yielded every future: the for loop ends
AsCompletedExhausted ==
    /\ invPc = "collecting"
    /\ yielded = Warehouses
    /\ invPc' = "exiting"
    /\ UNCHANGED <<now, sku, futures, yielded, order, total, endTime, pendingExc,
                   invOutcome, invResult, leftAt>>
    /\ UNCHANGED shipVars

\* end_time has passed with futures not yet yielded: as_completed raises
\* TimeoutError from the for statement, outside the try of the loop body
AsCompletedTimeout ==
    /\ invPc = "collecting"
    /\ yielded # Warehouses
    /\ now >= endTime
    /\ pendingExc' = "TimeoutError"
    /\ invPc' = "exiting"
    /\ UNCHANGED <<now, sku, futures, yielded, order, total, endTime,
                   invOutcome, invResult, leftAt>>
    /\ UNCHANGED shipVars

\* shutdown(wait=False): the workers are not joined
ShutdownNoWait == TRUE

\* ThreadPoolExecutor.__exit__ is shutdown(wait=True): it joins the workers
ShutdownDone == \A w \in Warehouses : futures[w] # "running"

\* the with block is left; the handler returns its result, or the pending
\* exception propagates to the caller
ExecutorExit ==
    /\ invPc = "exiting"
    /\ ShutdownDone
    /\ invPc' = "left"
    /\ leftAt' = now
    /\ IF pendingExc = "none"
       THEN /\ invOutcome' = "returned"
            /\ invResult' = InventoryText(sku, total)
       ELSE /\ invOutcome' = "raised"
            /\ invResult' = ""
    /\ UNCHANGED <<now, sku, futures, yielded, order, total, endTime, pendingExc>>
    /\ UNCHANGED shipVars

\* the calling thread has nothing to run: it waits in as_completed before
\* end_time with no finished future to yield, or in shutdown for a worker
HandlerBlocked ==
    \/ /\ invPc = "collecting"
       /\ now < endTime
       /\ \A w \in Warehouses \ yielded : ~Finished(w)
    \/ /\ invPc = "exiting"
       /\ ~ShutdownDone

\* the clock advances while the calling thread is blocked
Tick ==
    /\ now < MaxTime
    /\ HandlerBlocked
    /\ now' = now + 1
    /\ UNCHANGED <<invPc, sku, futures, yielded, order, total, endTime, pendingExc,
                   invOutcome, invResult, leftAt>>
    /\ UNCHANGED shipVars

----------------------------------------------------------------------------
(* Argument values of a tool call *)

\* a JSON value of the args dictionary, or the absence of the key
AbsentArg == [type |-> "absent", s |-> "", n |-> 0]
StrArg(s) == [type |-> "str", s |-> s, n |-> 0]
NumArg(n) == [type |-> "num", s |-> ToString(n), n |-> n]

\* the zip_code arguments callers pass
ZipArgs == {AbsentArg, StrArg(""), StrArg("90210"), StrArg("x9"), NumArg(90210)}

\* the weight arguments callers pass
WeightArgs == {AbsentArg, NumArg(2), NumArg(5), StrArg("heavy")}

\* args.get("zip_code", "")
GetZipDefaultEmpty(arg) == IF arg.type = "absent" THEN StrArg("") ELSE arg

\* args.get("zip_code", "50000")
GetZip(arg) == IF arg.type = "absent" THEN StrArg("50000") ELSE arg

\* args.get("weight", 1.0)
GetWeight(arg) == IF arg.type = "absent" THEN NumArg(1) ELSE arg

\* zip_code[0] raises TypeError: a non-empty value that is not a string
PrefixRaises(zip) == zip.type = "num" /\ zip.n # 0

\* zip_code[:1]: an empty zip code gives an empty prefix
zip_prefix_slice(zip) ==
    IF zip.type = "str" /\ Len(zip.s) > 0 THEN SubSeq(zip.s, 1, 1) ELSE ""

\* zip_code[0] if zip_code else "5"
zip_prefix(zip) ==
    IF zip.type = "str" /\ Len(zip.s) > 0 THEN SubSeq(zip.s, 1, 1) ELSE "5"

\* weight * 0.50 raises TypeError: the weight is not a number
WeightRaises(weight) == weight.type # "num"

----------------------------------------------------------------------------
(* _get_shipping_zone and _get_shipping_rate: the wrapped functions *)

Zones == {"west", "central", "east", "standard"}

\* zones.get(zip_prefix, "standard")
zones(prefix) ==
    CASE prefix \in {"9", "8"}           -> "west"
      [] prefix \in {"7", "6", "5", "4"} -> "central"
      [] prefix \in {"3", "2", "1", "0"} -> "east"
      [] OTHER                           -> "standard"

\* rates.get(zone, 14.99), in cents
rates(zone) ==
    CASE zone = "west"     -> 999
      [] zone = "central"  -> 1199
      [] zone = "east"     -> 1299
      [] zone = "standard" -> 1499
      [] OTHER             -> 1499

\* the wrapped function of table c applied to key k
Wrapped(c, k) == IF c = "zone" THEN [type |-> "zone", zone |-> zones(k), cents |-> 0]
                 ELSE [type |-> "rate", zone |-> "", cents |-> rates(k)]

----------------------------------------------------------------------------
(* functools.lru_cache(maxsize=100) *)

\* maxsize of both tables (100 in the program), scaled down
MaxSize == 2

Tables == {"zone", "rate"}

\* the keys the handlers pass to _get_shipping_zone
ZoneKeys == {zip_prefix(GetZip(z)) : z \in {a \in ZipArgs : ~PrefixRaises(a)}}

\* the keys the handlers pass to _get_shipping_rate
RateKeys == {zones(k) : k \in ZoneKeys}

\* no key is observed
NoWatch == [table |-> "", key |-> ""]

\* the table and key whose calls are observed
Watches == {[table |-> "zone", key |-> k] : k \in ZoneKeys}
           \cup {[table |-> "rate", key |-> k] : k \in RateKeys}

CacheHas(seq, k) == \E i \in 1..Len(seq) : seq[i].key = k

CacheIndex(seq, k) == CHOOSE i \in 1..Len(seq) : seq[i].key = k

\* a hit returns the result of the most recently used entry
CacheValueNewest(seq, k) == seq[Len(seq)].value

\* a hit returns the result stored in the link of the key
CacheValue(seq, k) == seq[CacheIndex(seq, k)].value

\* a hit leaves the link of the key where it is
CacheTouchNone(seq, k) == seq

\* a hit moves the link of the key to the most recently used end
CacheTouch(seq, k) ==
    LET i == CacheIndex(seq, k)
    IN  SubSeq(seq, 1, i - 1) \o SubSeq(seq, i + 1, Len(seq)) \o <<seq[i]>>

\* the table is full: the insertion evicts the oldest link
CacheFull(seq) == Len(seq) >= MaxSize

\* the oldest link is reused for the new result but keeps its old key
CacheStoreKeepKey(seq, k, v) ==
    IF CacheHas(seq, k) THEN seq
    ELSE IF Len(seq) >= MaxSize
         THEN Append(Tail(seq), [key |-> Head(seq).key, value |-> v])
    ELSE Append(seq, [key |-> k, value |-> v])

\* after the wrapped function returned: if the key was added in the
\* meantime the table is left alone; if the table is full the oldest link is
\* replaced; otherwise a link is appended
CacheStore(seq, k, v) ==
    IF CacheHas(seq, k) THEN seq
    ELSE IF CacheFull(seq) THEN Append(Tail(seq), [key |-> k, value |-> v])
    ELSE Append(seq, [key |-> k, value |-> v])

\* the key the insertion of k evicts, if any
Victims(seq, k) ==
    IF ~CacheHas(seq, k) /\ CacheFull(seq) /\ Len(seq) > 0 THEN {Head(seq).key} ELSE {}

----------------------------------------------------------------------------
(* Result texts *)

\* f"{total:.2f}" of an amount in cents
Fmt2(cents) ==
    ToString(cents \div 100) \o "." \o
    (IF cents % 100 < 10 THEN "0" ELSE "") \o ToString(cents % 100)

\* f"Shipping to {zip_code} ({zone} zone): ${total:.2f}"
ShippingText(zip, zone, cents) ==
    "Shipping to " \o zip.s \o " (" \o zone \o " zone): $" \o Fmt2(cents)

\* f"Zip {zip_code} is in {zone} zone"
ZoneText(zip, zone) == "Zip " \o zip.s \o " is in " \o zone \o " zone"

OnlineText == "External service: Online"
TryAgainText == "Could not check external service. Please try again."

----------------------------------------------------------------------------
(* The calling threads *)

Threads == {"t1", "t2"}

Idle == [pc |-> "idle", tool |-> "", zipArg |-> AbsentArg, weightArg |-> AbsentArg,
         zone |-> "", ext |-> "", outcome |-> "none", result |-> ""]

\* the handler of thread t returns the SwaigFunctionResult with this text
Returns(r, text) == [r EXCEPT !.pc = "done", !.outcome = "returned", !.result = text]

\* an exception leaves the handler of thread t
Raises(r) == [r EXCEPT !.pc = "done", !.outcome = "raised", !.result = ""]

\* the observations follow key k of table c
Watched(c, k) == watch = [table |-> c, key |-> k]

\* the keys used after the watched key, once key k of table c is hit or
\* inserted
SinceAfterUse(c, k) ==
    IF watch.table # c THEN since
    ELSE IF watch.key = k THEN {}
    ELSE since \cup {k}

\* a call of the memoized function of table c with key k by thread t finds
\* the key: the link is moved to the front and its result is returned
Hit(c, k) ==
    /\ CacheHas(cache[c], k)
    /\ cache' = [cache EXCEPT ![c] = CacheTouch(cache[c], k)]
    /\ seen' = IF Watched(c, k) THEN seen \cup {CacheValue(cache[c], k)} ELSE seen
    /\ since' = SinceAfterUse(c, k)
    /\ UNCHANGED <<watch, runs, evicted>>

\* the call finds no link for the key: the wrapped function is to be called
Miss(c, k) ==
    /\ ~CacheHas(cache[c], k)
    /\ UNCHANGED <<cache, watch, seen, runs, evicted, since>>

\* the wrapped function runs and its result is stored and returned
Fill(c, k) ==
    /\ cache' = [cache EXCEPT ![c] = CacheStore(cache[c], k, Wrapped(c, k))]
    /\ seen' = IF Watched(c, k) THEN seen \cup {Wrapped(c, k)} ELSE seen
    /\ runs' = IF Watched(c, k) THEN runs + 1
               ELSE IF \E x \in Victims(cache[c], k) : Watched(c, x) THEN 0
               ELSE runs
    /\ evicted' = (evicted \/ \E x \in Victims(cache[c], k) : Watched(c, x))
    /\ since' = IF CacheHas(cache[c], k) THEN since ELSE SinceAfterUse(c, k)
    /\ UNCHANGED watch

\* total = base_rate: the weight is left out of the cost
FinishShippingFlat(r0, wa, cents) ==
    LET r == [r0 EXCEPT !.weightArg = wa]
    IN  IF WeightRaises(GetWeight(wa)) THEN Raises(r)
        ELSE Returns(r, ShippingText(GetZip(r.zipArg), r.zone, cents))

\* base_rate + (weight * 0.50) and the result of calculate_shipping; the
\* weight argument of the call, which nothing before this line uses, is
\* drawn here
FinishShipping(r0, wa, cents) ==
    LET r == [r0 EXCEPT !.weightArg = wa]
    IN  IF WeightRaises(GetWeight(wa)) THEN Raises(r)
        ELSE Returns(r, ShippingText(GetZip(r.zipArg), r.zone,
                                     cents + GetWeight(wa).n * 50))

\* calculate_shipping up to the return of the lookup in the zone table
calculate_shipping(t, za, wa) ==
    /\ th[t].pc = "idle"
    /\ LET r == [Idle EXCEPT !.tool = "calculate_shipping", !.zipArg = za]
           k == zip_prefix(GetZip(za))
       IN  IF PrefixRaises(GetZip(za))
           THEN /\ th' = [th EXCEPT ![t] = Raises([r EXCEPT !.weightArg = wa])]
                /\ UNCHANGED <<cache, watch, seen, runs, evicted, since>>
           ELSE \/ /\ Hit("zone", k)
                   /\ th' = [th EXCEPT ![t] =
                         [r EXCEPT !.pc = "rate",
                                   !.zone = CacheValue(cache["zone"], k).zone]]
                \/ /\ Miss("zone", k)
                   /\ th' = [th EXCEPT ![t] = [r EXCEPT !.pc = "zone_body"]]
    /\ UNCHANGED invVars

\* get_shipping_zone up to the return of the lookup in the zone table
get_shipping_zone(t, za) ==
    /\ th[t].pc = "idle"
    /\ LET r == [Idle EXCEPT !.tool = "get_shipping_zone", !.zipArg = za]
           k == zip_prefix(GetZip(za))
       IN  IF PrefixRaises(GetZip(za))
           THEN /\ th' = [th EXCEPT ![t] = Raises(r)]
                /\ UNCHANGED <<cache, watch, seen, runs, evicted, since>>
           ELSE \/ /\ Hit("zone", k)
                   /\ th' = [th EXCEPT ![t] =
                         Returns(r, ZoneText(GetZip(za),
                                             CacheValue(cache["zone"], k).zone))]
                \/ /\ Miss("zone", k)
                   /\ th' = [th EXCEPT ![t] = [r EXCEPT !.pc = "zone_body"]]
    /\ UNCHANGED invVars

\* the body of _get_shipping_zone runs for the caller's prefix and the
\* result is stored; get_shipping_zone then returns, calculate_shipping goes
\* on to the rate
_get_shipping_zone(t) ==
    /\ th[t].pc = "zone_body"
    /\ LET k == zip_prefix(GetZip(th[t].zipArg))
           z == Wrapped("zone", k).zone
       IN  /\ Fill("zone", k)
           /\ th' = [th EXCEPT ![t] =
                 IF th[t].tool = "get_shipping_zone"
                 THEN Returns(th[t], ZoneText(GetZip(th[t].zipArg), z))
                 ELSE [th[t] EXCEPT !.pc = "rate", !.zone = z]]
    /\ UNCHANGED invVars

\* calculate_shipping calls _get_shipping_rate(zone)
RateLookup(t, wa) ==
    /\ th[t].pc = "rate"
    /\ \/ /\ Hit("rate", th[t].zone)
          /\ th' = [th EXCEPT ![t] =
                FinishShipping(th[t], wa,
                               CacheValue(cache["rate"], th[t].zone).cents)]
       \/ /\ Miss("rate", th[t].zone)
          /\ th' = [th EXCEPT ![t].pc = "rate_body"]
    /\ UNCHANGED invVars

\* the body of _get_shipping_rate runs, the result is stored, and
\* calculate_shipping finishes
_get_shipping_rate(t, wa) ==
    /\ th[t].pc = "rate_body"
    /\ Fill("rate", th[t].zone)
    /\ th' = [th EXCEPT ![t] =
          FinishShipping(th[t], wa, Wrapped("rate", th[t].zone).cents)]
    /\ UNCHANGED invVars

\* what requests.get(..., timeout=2) can do: return a response ("ok",
\* whatever its status code), raise requests.Timeout, or raise another
\* exception (a connection error, or ImportError from the import)
ExtOutcomes == {"ok", "timeout", "error"}

\* except requests.Timeout
CaughtTimeoutOnly(oc) == oc = "timeout"

\* except Exception
Caught(oc) == oc \in {"timeout", "error"}

\* check_external_service up to the call of requests.get
check_external_service(t) ==
    /\ th[t].pc = "idle"
    /\ th' = [th EXCEPT ![t] =
          [Idle EXCEPT !.tool = "check_external_service", !.pc = "ext_wait"]]
    /\ UNCHANGED <<cache, watch, seen, runs, evicted, since>>
    /\ UNCHANGED invVars

\* requests.get returns or raises, and check_external_service finishes
RequestsGetDone(t, oc) ==
    /\ th[t].pc = "ext_wait"
    /\ LET r == [th[t] EXCEPT !.ext = oc]
       IN  th' = [th EXCEPT ![t] =
             IF oc = "ok" THEN Returns(r, OnlineText)
             ELSE IF Caught(oc) THEN Returns(r, TryAgainText)
             ELSE Raises(r)]
    /\ UNCHANGED <<cache, watch, seen, runs, evicted, since>>
    /\ UNCHANGED invVars

\* the host has taken the result: the thread is free for the next call
HandlerDone(t) ==
    /\ th[t].pc = "done"
    /\ th' = [th EXCEPT ![t] = Idle]
    /\ UNCHANGED <<cache, watch, seen, runs, evicted, since>>
    /\ UNCHANGED invVars

InitShip ==
    /\ cache = [c \in Tables |-> <<>>]
    /\ th = [t \in Threads |-> Idle]
    /\ watch = NoWatch
    /\ runs = 0
    /\ seen = {}
    /\ evicted = FALSE
    /\ since = {}

InitInv ==
    /\ invPc = "idle"
    /\ now = 0
    /\ sku = ""
    /\ futures = [w \in Warehouses |-> "unsubmitted"]
    /\ yielded = {}
    /\ order = <<>>
    /\ total = 0
    /\ endTime = 0
    /\ pendingExc = "none"
    /\ invOutcome = "none"
    /\ invResult = ""
    /\ leftAt = 0

Init == InitInv /\ InitShip

\* the start with one table and key under observation
InitMemo ==
    /\ InitInv
    /\ cache = [c \in Tables |-> <<>>]
    /\ th = [t \in Threads |-> Idle]
    /\ watch \in Watches
    /\ runs = 0
    /\ seen = {}
    /\ evicted = FALSE
    /\ since = {}

NextInv ==
    \/ \E arg \in SkuArgs : check_inventory(arg)
    \/ \E w \in Warehouses : _check_warehouse(w)
    \/ \E w \in Warehouses : _check_warehouse_raises(w)
    \/ \E w \in Warehouses : AsCompletedYield(w)
    \/ AsCompletedExhausted
    \/ AsCompletedTimeout
    \/ ExecutorExit
    \/ Tick

SpecInv == Init /\ [][NextInv]_vars

Next ==
    \/ \E t \in Threads, za \in ZipArgs, wa \in WeightArgs :
          calculate_shipping(t, za, wa)
    \/ \E t \in Threads, za \in ZipArgs : get_shipping_zone(t, za)
    \/ \E t \in Threads : _get_shipping_zone(t)
    \/ \E t \in Threads, wa \in WeightArgs : RateLookup(t, wa)
    \/ \E t \in Threads, wa \in WeightArgs : _get_shipping_rate(t, wa)
    \/ \E t \in Threads : check_external_service(t)
    \/ \E t \in Threads, oc \in ExtOutcomes : RequestsGetDone(t, oc)
    \/ \E t \in Threads : HandlerDone(t)

Spec == Init /\ [][Next]_vars

\* the zip codes of the callers of SpecMemo: one per key
MemoZipArgs == {StrArg(""), StrArg("90210"), StrArg("x9")}

\* concurrent callers of the two memoized lookups
NextMemo ==
    \/ \E t \in Threads, za \in MemoZipArgs : calculate_shipping(t, za, AbsentArg)
    \/ \E t \in Threads, za \in MemoZipArgs : get_shipping_zone(t, za)
    \/ \E t \in Threads : _get_shipping_zone(t)
    \/ \E t \in Threads : RateLookup(t, AbsentArg)
    \/ \E t \in Threads : _get_shipping_rate(t, AbsentArg)
    \/ \E t \in Threads : HandlerDone(t)

SpecMemo == InitMemo /\ [][NextMemo]_vars


----------------------------------------------------------------------------
(* Properties of check_inventory *)

TimedOut == pendingExc = "TimeoutError"

Failed == {w \in Warehouses : futures[w] = "failed"}
Succeeded == {w \in Warehouses : futures[w] = "done"}

\* C1: when the overall deadline expires with probes outstanding, the
\* handler raises nothing and returns the sum of the probes collected by
\* the deadline.
C1_TimeoutReturnsPartialSum ==
    (invPc = "left" /\ TimedOut) =>
        /\ invOutcome = "returned"
        /\ invResult = InventoryText(sku, SumInventory(yielded \cap Succeeded))

C4_ReturnsWithinDeadline ==
    invPc = "left" => leftAt <= endTime + EpsTicks

\* C5: when control leaves check_inventory, by return or by exception, no
\* probe task is still running.
C5_NoTaskLeak ==
    invPc = "left" => \A w \in Warehouses : Finished(w)

\* control left on the timeout path with a failed probe
C5_Witness ==
    /\ invPc = "left"
    /\ TimedOut
    /\ Failed # {}
    /\ yielded # Warehouses

\* C6: a returned total is at most the sum of the table values of the probed
\* ids, and is that full sum when no probe fails and the deadline is not
\* reached.
C6_TotalBounded ==
    /\ invOutcome = "returned" =>
           \E n \in 0..SumInventory(Warehouses) : invResult = InventoryText(sku, n)
    /\ (invPc = "left" /\ Failed = {} /\ ~TimedOut) =>
           /\ invOutcome = "returned"
           /\ invResult = InventoryText(sku, SumInventory(Warehouses))

\* all three probes succeeded in time and the handler returned 30
C6_Witness ==
    /\ invOutcome = "returned"
    /\ Failed = {}
    /\ invResult = InventoryText(sku, 30)

----------------------------------------------------------------------------
(* Properties of the memoized lookups *)

\* C2: whatever the interleaving of the callers, the wrapped function is
\* executed at most once for a key between two evictions of the key.
C2_AtMostOneComputationPerKey == runs <= 1

\* C10: all calls with one key return the same value, for the lifetime of
\* the table, also when the key was evicted and computed again in between;
\* the value the table holds for the key is that value.
C10_OneValuePerKey ==
    /\ Cardinality(seen) <= 1
    /\ \A i \in 1..Len(cache[watch.table]) :
          cache[watch.table][i].key = watch.key =>
              seen = {cache[watch.table][i].value}

\* the watched key was returned, evicted, computed again and returned
C10_Witness ==
    /\ evicted
    /\ runs >= 1
    /\ Cardinality(seen) = 1

----------------------------------------------------------------------------
(* Properties of the handlers *)

\* the calls that have finished
DoneCalls == {th[t] : t \in {u \in Threads : th[u].pc = "done"}}

\* C7: check_external_service never raises: it returns the success text
\* when requests.get succeeded and the "try again" text when it timed out or
\* failed in any other way.
C7_ExternalServiceNeverRaises ==
    \A r \in DoneCalls :
        r.tool = "check_external_service" =>
            /\ r.outcome = "returned"
            /\ r.ext = "ok" => r.result = "External service: Online"
            /\ r.ext # "ok" =>
                 r.result = "Could not check external service. Please try again."

\* requests.get failed with an error that is not a timeout and the handler
\* returned the degraded text
C7_Witness ==
    \E r \in DoneCalls :
        /\ r.tool = "check_external_service"
        /\ r.ext = "error"
        /\ r.outcome = "returned"
        /\ r.result = TryAgainText

\* C9: calculate_shipping and get_shipping_zone do not raise on a missing
\* argument: an absent zip_code is replaced by "50000" and an absent weight
\* by 1.0, and the handler returns the result computed from these.
C9_MissingArgumentsDefaulted ==
    \A r \in DoneCalls :
        /\ (r.tool = "get_shipping_zone" /\ r.zipArg = AbsentArg) =>
              /\ r.outcome = "returned"
              /\ r.result = "Zip 50000 is in central zone"
        /\ (r.tool = "calculate_shipping" /\ r.zipArg = AbsentArg
                /\ r.weightArg = AbsentArg) =>
              /\ r.outcome = "returned"
              /\ r.result = "Shipping to 50000 (central zone): $12.49"
        /\ (r.tool = "calculate_shipping" /\ r.zipArg = AbsentArg
                /\ r.weightArg.type = "num") =>
              /\ r.outcome = "returned"
              /\ r.result = ShippingText(StrArg("50000"), "central",
                                         1199 + 50 * r.weightArg.n)
        /\ (r.tool = "calculate_shipping" /\ r.zipArg.type = "str"
                /\ r.weightArg = AbsentArg) =>
              /\ r.outcome = "returned"
              /\ r.result = ShippingText(r.zipArg, zones(zip_prefix(r.zipArg)),
                                         rates(zones(zip_prefix(r.zipArg))) + 50)

\* calculate_shipping was called without zip_code and without weight and
\* returned, and so was get_shipping_zone
C9_Witness ==
    /\ \E r \in DoneCalls :
          /\ r.tool = "calculate_shipping"
          /\ r.zipArg = AbsentArg
          /\ r.weightArg = AbsentArg
          /\ r.outcome = "returned"
    /\ \E r \in DoneCalls :
          /\ r.tool = "get_shipping_zone"
          /\ r.zipArg = AbsentArg
          /\ r.outcome = "returned"

\* C11: for every zip code with a first character p and every weight w,
\* calculate_shipping returns the zone of p and the cost rate(zone) + 0.50 w;
\* zip "90210" with weight 2.0 gives zone west and 10.99.
C11_ShippingCost ==
    \A r \in DoneCalls :
        (r.tool = "calculate_shipping" /\ r.zipArg.type = "str"
            /\ Len(r.zipArg.s) > 0 /\ r.weightArg.type = "num") =>
          LET p == SubSeq(r.zipArg.s, 1, 1)
          IN  /\ r.outcome = "returned"
              /\ r.zone = zones(p)
              /\ r.result = "Shipping to " \o r.zipArg.s \o " (" \o zones(p)
                            \o " zone): $"
                            \o Fmt2(rates(zones(p)) + 50 * r.weightArg.n)
              /\ (r.zipArg.s = "90210" /\ r.weightArg.n = 2) =>
                    r.result = "Shipping to 90210 (west zone): $10.99"

\* calculate_shipping("90210", 2.0) returned 10.99 in zone west
C11_Witness ==
    \E r \in DoneCalls :
        /\ r.tool = "calculate_shipping"
        /\ r.zipArg = StrArg("90210")
        /\ r.weightArg = NumArg(2)
        /\ r.result = "Shipping to 90210 (west zone): $10.99"

\* C12: two calls of calculate_shipping, or of get_shipping_zone, with
\* identical arguments end the same way with the same result text, whatever
\* calls, hits, misses and evictions happen before or between them (the
\* first call's thread holds its result while the other thread goes on).
C12_SameArgumentsSameResult ==
    \A t, u \in Threads :
        (/\ th[t].pc = "done" /\ th[u].pc = "done"
         /\ th[t].tool \in {"calculate_shipping", "get_shipping_zone"}
         /\ th[t].tool = th[u].tool
         /\ th[t].zipArg = th[u].zipArg
         /\ th[t].weightArg = th[u].weightArg) =>
            /\ th[t].outcome = th[u].outcome
            /\ th[t].result = th[u].result

\* two calls of calculate_shipping with the same zip code and weight have
\* both returned the same text, and other calls ran before or between them:
\* the zone table is full, and the rate table holds a zone whose prefix the
\* zone table has evicted
C12_Witness ==
    \E t, u \in Threads :
        /\ t # u
        /\ th[t].pc = "done" /\ th[u].pc = "done"
        /\ th[t].tool = "calculate_shipping" /\ th[u].tool = "calculate_shipping"
        /\ th[t].zipArg = StrArg("90210") /\ th[u].zipArg = StrArg("90210")
        /\ th[t].weightArg = th[u].weightArg
        /\ th[t].outcome = "returned"
        /\ th[t].result = th[u].result
        /\ Len(cache["zone"]) = MaxSize
        /\ CacheHas(cache["rate"], "standard")
        /\ ~CacheHas(cache["zone"], "x")

----------------------------------------------------------------------------
(* Further properties of check_inventory *)

\* a worker thread finishes its probe in this step
WorkerStep == \E w \in Warehouses : futures[w] = "running" /\ futures'[w] # "running"

\* C13: the accumulator and the result are written by the calling thread
\* only: a probe that completes never changes them, and once control has
\* left check_inventory the total and the returned text never change.
C13_ResultNotWrittenByProbes ==
    /\ [][WorkerStep => (total' = total /\ invResult' = invResult
                          /\ invOutcome' = invOutcome)]_vars
    /\ [][invPc = "left" => (total' = total /\ invResult' = invResult
                              /\ invOutcome' = invOutcome)]_vars

\* the handler returned a total that probes contributed to
C13_Witness ==
    /\ invPc = "left"
    /\ invOutcome = "returned"
    /\ total > 0
    /\ invResult = InventoryText(sku, total)

\* the futures handed to the loop so far, as a set
Collected == {order[i] : i \in 1..Len(order)}

\* C14: the total does not depend on the order in which the probes
\* complete: whatever the order of the futures handed to the loop, the
\* accumulator is the sum over the set of succeeded futures among them, and
\* when all probes finish before the deadline the returned total is the sum
\* over the set of succeeded probes.
C14_OrderIndependent ==
    /\ total = SumInventory(Collected \cap Succeeded)
    /\ (invPc = "left" /\ ~TimedOut) =>
          /\ Collected = Warehouses
          /\ invResult = InventoryText(sku, SumInventory(Succeeded))

\* the probes completed in the order C, A, B, A failed, and 20 was returned
C14_Witness ==
    /\ invOutcome = "returned"
    /\ order = <<"C", "A", "B">>
    /\ Failed = {"A"}
    /\ invResult = InventoryText(sku, 20)

----------------------------------------------------------------------------
(* Further properties of the memoized lookups *)

\* the keys a table holds
KeysOf(seq) == {seq[i].key : i \in 1..Len(seq)}

\* C15: a table never holds more entries than its capacity, a key at most
\* once; an insertion into a table that is not full evicts nothing, and an
\* insertion into a full table evicts exactly one entry, the least recently
\* used one: every other entry was hit or inserted after the last hit or
\* insertion of the evicted key.
C15_CapacityAndLru ==
    /\ [](\A c \in Tables :
            /\ Len(cache[c]) <= MaxSize
            /\ Cardinality(KeysOf(cache[c])) = Len(cache[c]))
    /\ [][\A c \in Tables :
            LET old == KeysOf(cache[c])
                new == KeysOf(cache'[c])
            IN  /\ (new # old) => Cardinality(new \ old) = 1
                /\ (new # old /\ Len(cache[c]) < MaxSize) => old \subseteq new
                /\ (new # old /\ Len(cache[c]) = MaxSize) =>
                      /\ Cardinality(old \ new) = 1
                      /\ Len(cache'[c]) = MaxSize
                      /\ cache'[c][MaxSize].key \in new \ old
                /\ (watch.table = c /\ watch.key \in old \ new) =>
                      (old \ {watch.key}) \subseteq since
       ]_vars

\* the watched key was returned by a call and later evicted from the full
\* table
C15_Witness ==
    /\ evicted
    /\ ~CacheHas(cache[watch.table], watch.key)
    /\ Len(cache[watch.table]) = MaxSize
    /\ runs = 0
    /\ Cardinality(seen) = 1

----------------------------------------------------------------------------
(* Further properties of the handlers *)

\* calculate_shipping with the zone and rate functions called directly
UncachedShipping(za, wa) ==
    LET zip_code == IF za.type = "absent" THEN StrArg("50000") ELSE za
        weight == IF wa.type = "absent" THEN NumArg(1) ELSE wa
        zone == zones(zip_prefix(zip_code))
    IN  IF (zip_code.type = "num" /\ zip_code.n # 0) \/ weight.type # "num"
        THEN [outcome |-> "raised", result |-> ""]
        ELSE [outcome |-> "returned",
              result |-> "Shipping to " \o zip_code.s \o " (" \o zone
                         \o " zone): $" \o Fmt2(rates(zone) + 50 * weight.n)]

\* get_shipping_zone with the zone function called directly
UncachedZone(za) ==
    LET zip_code == IF za.type = "absent" THEN StrArg("50000") ELSE za
    IN  IF zip_code.type = "num" /\ zip_code.n # 0
        THEN [outcome |-> "raised", result |-> ""]
        ELSE [outcome |-> "returned",
              result |-> "Zip " \o zip_code.s \o " is in "
                         \o zones(zip_prefix(zip_code)) \o " zone"]

\* C16: in every state of the tables (empty, warm, after evictions) a call
\* of calculate_shipping or get_shipping_zone ends as the same handler does
\* when it calls the zone and rate functions without the tables.
C16_MemoizationTransparent ==
    \A r \in DoneCalls :
        /\ r.tool = "calculate_shipping" =>
              [outcome |-> r.outcome, result |-> r.result]
                  = UncachedShipping(r.zipArg, r.weightArg)
        /\ r.tool = "get_shipping_zone" =>
              [outcome |-> r.outcome, result |-> r.result]
                  = UncachedZone(r.zipArg)

\* get_shipping_zone("") returned while the zone table was full and had
\* evicted prefix "9", whose zone the rate table still holds
C16_Witness ==
    /\ \E r \in DoneCalls :
          /\ r.tool = "get_shipping_zone"
          /\ r.zipArg = StrArg("")
          /\ r.result = "Zip  is in central zone"
    /\ Len(cache["zone"]) = MaxSize
    /\ ~CacheHas(cache["zone"], "9")
    /\ CacheHas(cache["rate"], "west")

\* the rates of the rate table, in cents
DefinedRates == {999, 1199, 1299, 1499}

\* C17: the zone and rate lookups are total on zip-code strings: the zone
\* resolved for any string is west, central, east or standard (central for
\* the empty string, whose prefix is "5", standard for a first character
\* that is not a digit), and the rate lookup of that zone returns one of the
\* four rates, so that the handlers return.
C17_LookupsTotal ==
    /\ \A i \in 1..Len(cache["zone"]) : cache["zone"][i].value.zone \in Zones
    /\ \A i \in 1..Len(cache["rate"]) :
          /\ cache["rate"][i].key \in Zones
          /\ cache["rate"][i].value.cents \in DefinedRates
    /\ \A t \in Threads : th[t].pc \in {"rate", "rate_body"} => th[t].zone \in Zones
    /\ \A r \in DoneCalls :
          (r.tool \in {"calculate_shipping", "get_shipping_zone"}
              /\ r.zipArg.type = "str") =>
            LET z == IF r.zipArg.s = "" THEN "central"
                     ELSE IF SubSeq(r.zipArg.s, 1, 1) \in
                               {"0", "1", "2", "3", "4", "5", "6", "7", "8", "9"}
                          THEN zones(SubSeq(r.zipArg.s, 1, 1))
                     ELSE "standard"
            IN  /\ z \in Zones
                /\ r.tool = "get_shipping_zone" =>
                      /\ r.outcome = "returned"
                      /\ r.result = "Zip " \o r.zipArg.s \o " is in " \o z \o " zone"
                /\ (r.tool = "calculate_shipping" /\ r.weightArg.type # "str") =>
                      /\ r.outcome = "returned"
                      /\ r.zone = z
                      /\ \E c \in DefinedRates :
                            r.result = ShippingText(r.zipArg, z,
                                           c + 50 * GetWeight(r.weightArg).n)

\* calculate_shipping returned for the empty zip code and get_shipping_zone
\* for a zip code that starts with a letter
C17_Witness ==
    /\ \E r \in DoneCalls :
          /\ r.tool = "calculate_shipping"
          /\ r.zipArg = StrArg("")
          /\ r.weightArg = AbsentArg
          /\ r.result = "Shipping to  (central zone): $12.49"
    /\ \E r \in DoneCalls :
          /\ r.tool = "get_shipping_zone"
          /\ r.zipArg = StrArg("x9")
          /\ r.result = "Zip x9 is in standard zone"

====
